---- MODULE Spec2Model ----
(***************************************************************************)
(* Model of the owners CRM (owners/models.py, owners/forms.py,              *)
(* owners/views.py, migrate_to_multi_owner.py): the relational store of     *)
(* Owners, Offices, Employees and Reports, the request handlers that read   *)
(* and write it, and the model methods that maintain the multi-owner        *)
(* relationships.  One action per view or model method; every action        *)
(* records the response it hands back in `response`.                        *)
(***************************************************************************)
EXTENDS Integers, FiniteSets, Sequences, TLC

\* ---------------------------------------------------------------- bounds
\* A run inserts at most `cap` rows (over the four tables); each
\* specification sets its own cap.  The calendar runs from day 1 to MaxDay;
\* the clock distinguishes TicksPerDay instants of a day, the first of them
\* midnight.
MaxEntities == 3
MaxOwnership == 3
MaxEdit == 3
MaxViews == 3
MaxReport == 4
MaxLog == 3
MaxHistory == 2
MaxActivity == 3
MaxMatrix == 4
MaxHome == 4
MaxYearEnd == 3
MaxHomeScope == 4
MaxOwner == 3
MaxStaff == 3
MaxCascade == 3
MaxConcurrent == 3
MaxCallFrame == 4
MaxMigrate == 3
MaxWeek == 1
MaxDay == 2
TicksPerDay == 2

\* ------------------------------------------------------------- constants
\* A null foreign key / null date (null=True in the model fields).
None == 0

Users == {"u1", "u2"}

\* The callers that can have a model method call in flight at the same time,
\* and the state of a caller without one.
Callers == {"c1", "c2"}
Idle == [pc |-> "idle"]
Methods == {"GET", "POST"}

\* timedelta(days=7): the days of a week.
DaysPerWeek == 7

\* reports_qs[:5]: the number of reports home lists.
RecentCount == 5

\* Report.calltype_choices: the five fixed codes.
calltype_choices == {"phone", "email", "fov", "teams", "other"}


VARIABLES
    owners,      \* id -> [user, last_contacted]
    offices,     \* id -> [owners, primary_owner, owner, last_contacted]
    employees,   \* id -> [name, office, owner]
    reports,     \* id -> [calltype, created_at, employee, office,
                 \*        primary_owner, additional_owners, owner, author]
    seq,         \* last primary key handed out per table (keys are not reused)
    now,         \* timezone.now(): TicksPerDay * day + instant of the day
    cap,         \* the number of rows the run may insert
    calls,       \* caller -> the model method call it has in flight, or Idle
    response     \* the response of the last request or call

store == <<owners, offices, employees, reports, seq>>
vars ==
    <<owners, offices, employees, reports, seq, now, cap, calls, response>>

\* date.today(), the date of a datetime, and midnight of a date (what Django
\* makes of a date compared with a DateTimeField).
DateOf(t) == t \div TicksPerDay
Midnight(d) == TicksPerDay * d
today == DateOf(now)

\* Primary keys a request can name: the keys handed out so far and the next
\* one, which no row has yet.
OwnerIds == 1..(seq.owner + 1)
OfficeIds == 1..(seq.office + 1)
EmployeeIds == 1..(seq.employee + 1)
ReportIds == 1..(seq.report + 1)

Inserted == seq.owner + seq.office + seq.employee + seq.report

\* What a view or method hands back: the HTTP result (a rendered page, the
\* form again with its errors, a redirect, a 404, a 500) or the return value;
\* data is the row a rendered dashboard shows, or the arguments of a model
\* method call, or the requester and the target of an edit request, or the
\* requester and the new owner of a request that created one.
Ret(view, result, data) ==
    response' = [view |-> view, result |-> result, data |-> data]

\* render(request, template, {"form": form}): the blank form on a GET, the
\* submitted form with its errors on a POST that did not validate.
FormPage(method) == IF method = "POST" THEN "form_errors" ELSE "render"

Min(S) == CHOOSE x \in S : \A y \in S : x <= y

\* ------------------------------------------------------------- querysets
\* Owner.objects.filter(user=request.user)
UserOwners(u) == {o \in DOMAIN owners : owners[o].user = u}

\* The office check without the restriction to the requester's owners: any
\* office that has an owner passes.
OfficeAccessibleToAnyUser(u, f) ==
    \/ offices[f].owners # {}
    \/ offices[f].primary_owner # None
    \/ offices[f].owner # None

\* Office.objects.filter(Q(id=f) & (Q(owners__in=user_owners) |
\*   Q(primary_owner__in=user_owners) | Q(owner__in=user_owners))).exists()
OfficeAccessible(u, f) ==
    \/ offices[f].owners \cap UserOwners(u) # {}
    \/ offices[f].primary_owner \in UserOwners(u)
    \/ offices[f].owner \in UserOwners(u)

\* OwnerForm.__init__: Office.objects.filter(Q(primary_owner__user=user) |
\*   Q(owner__user=user)).distinct()
FormUserOffices(u) ==
    {f \in DOMAIN offices : \/ offices[f].primary_owner \in UserOwners(u)
                            \/ offices[f].owner \in UserOwners(u)}

\* owner.offices.all() (related_name='offices' of Office.owners)
OwnerOffices(o) == {f \in DOMAIN offices : o \in offices[f].owners}

\* Office.get_primary_owner: self.primary_owner or self.owner
OfficeGetPrimaryOwner(f) ==
    IF offices[f].primary_owner # None THEN offices[f].primary_owner
    ELSE offices[f].owner

\* Office.is_owner
OfficeIsOwner(f, o) ==
    IF offices[f].owners # {} THEN o \in offices[f].owners
    ELSE IF offices[f].owner # None THEN offices[f].owner = o
    ELSE FALSE

\* Report.get_primary_owner: self.primary_owner or self.owner
ReportGetPrimaryOwner(r) ==
    IF reports[r].primary_owner # None THEN reports[r].primary_owner
    ELSE reports[r].owner

\* ------------------------------------------------------ on_delete=CASCADE
\* The rows Django's collector deletes with the given owners, offices and
\* employees: offices by primary_owner/owner, employees by office/owner,
\* reports by employee/office/primary_owner/owner.
DeadOffices(dOwn, dOff) ==
    dOff \cup {f \in DOMAIN offices : \/ offices[f].primary_owner \in dOwn
                                    \/ offices[f].owner \in dOwn}
\* A collector that follows Employee.owner but not Employee.office.
DeadEmployeesByOwner(dOwn, dOff, dEmp) ==
    dEmp \cup {e \in DOMAIN employees : employees[e].owner \in dOwn}

DeadEmployees(dOwn, dOff, dEmp) ==
    dEmp \cup {e \in DOMAIN employees :
                  \/ employees[e].office \in DeadOffices(dOwn, dOff)
                  \/ employees[e].owner \in dOwn}
DeadReports(dOwn, dOff, dEmp) ==
    {r \in DOMAIN reports :
        \/ reports[r].employee \in DeadEmployees(dOwn, dOff, dEmp)
        \/ reports[r].office \in DeadOffices(dOwn, dOff)
        \/ reports[r].primary_owner \in dOwn
        \/ reports[r].owner \in dOwn}

\* A delete that leaves the many-to-many rows of a deleted owner behind in
\* the offices that stay.
CascadeDeleteKeepingMembers(dOwn, dOff, dEmp) ==
    /\ owners' = [o \in DOMAIN owners \ dOwn |-> owners[o]]
    /\ offices' = [f \in DOMAIN offices \ DeadOffices(dOwn, dOff) |->
                      offices[f]]
    /\ employees' = [e \in DOMAIN employees \ DeadEmployees(dOwn, dOff, dEmp)
                        |-> employees[e]]
    /\ reports' = [r \in DOMAIN reports \ DeadReports(dOwn, dOff, dEmp) |->
                      [reports[r] EXCEPT !.additional_owners = @ \ dOwn]]
    /\ UNCHANGED seq

\* The store after Model.delete() of those rows; many-to-many rows of a
\* deleted owner go with it.
CascadeDelete(dOwn, dOff, dEmp) ==
    /\ owners' = [o \in DOMAIN owners \ dOwn |-> owners[o]]
    /\ offices' = [f \in DOMAIN offices \ DeadOffices(dOwn, dOff) |->
                      [offices[f] EXCEPT !.owners = @ \ dOwn]]
    /\ employees' = [e \in DOMAIN employees \ DeadEmployees(dOwn, dOff, dEmp)
                        |-> employees[e]]
    /\ reports' = [r \in DOMAIN reports \ DeadReports(dOwn, dOff, dEmp) |->
                      [reports[r] EXCEPT !.additional_owners = @ \ dOwn]]
    /\ UNCHANGED seq

\* The empty store at midnight of a day, with the cap of the run.
InitAt(c, day) ==
    /\ cap = c
    /\ owners = <<>>
    /\ offices = <<>>
    /\ employees = <<>>
    /\ reports = <<>>
    /\ seq = [owner |-> 0, office |-> 0, employee |-> 0, report |-> 0]
    /\ now = TicksPerDay * day
    /\ calls = [k \in Callers |-> Idle]
    /\ response = [view |-> "none", result |-> "none", data |-> None]

InitCap(c) == InitAt(c, 1)

\* The clock advances by one instant.
Tick ==
    /\ now < TicksPerDay * (MaxDay + 1) - 1
    /\ now' = now + 1
    /\ UNCHANGED <<store, cap, calls, response>>

\* A week passes without a request.
WeekPasses ==
    /\ today <= DaysPerWeek * MaxWeek
    /\ now' = now + TicksPerDay * DaysPerWeek
    /\ UNCHANGED <<store, cap, calls, response>>

\* ------------------------------------------------------------ owner views
\* OwnerForm(data=request.POST, user=request.user).is_valid(): name is
\* required, and every selected office must be in the field's queryset.
OwnerFormValid(u, name, sel) ==
    /\ name # ""
    /\ sel \subseteq FormUserOffices(u)

\* owner_create: loop over the selected offices
OwnerCreateOffices(new, sel, set_as_primary) ==
    [f \in DOMAIN offices |->
        IF f \in sel
        THEN [offices[f] EXCEPT
                 !.owners = @ \cup {new},
                 !.primary_owner =
                     IF set_as_primary /\ @ = None THEN new ELSE @]
        ELSE offices[f]]

\* An owner_create that leaves the new owner with the user of the owner
\* created before it, if there is one.
owner_create_keeping_user(u, method, name, lc, sel, set_as_primary) ==
    LET new == seq.owner + 1 IN
    IF method = "POST" /\ OwnerFormValid(u, name, sel)
    THEN /\ Inserted < cap
         /\ owners' = [o \in DOMAIN owners \cup {new} |->
                          IF o = new
                          THEN [user |-> IF seq.owner \in DOMAIN owners
                                         THEN owners[seq.owner].user ELSE u,
                                last_contacted |-> lc]
                          ELSE owners[o]]
         /\ offices' = OwnerCreateOffices(new, sel, set_as_primary)
         /\ seq' = [seq EXCEPT !.owner = new]
         /\ UNCHANGED <<employees, reports, now, cap, calls>>
         /\ Ret("owner_create", "redirect:home", <<u, new>>)
    ELSE /\ UNCHANGED <<store, now, cap, calls>>
         /\ Ret("owner_create", FormPage(method), None)

owner_create(u, method, name, lc, sel, set_as_primary) ==
    LET new == seq.owner + 1 IN
    IF method = "POST" /\ OwnerFormValid(u, name, sel)
    THEN /\ Inserted < cap
         /\ owners' = [o \in DOMAIN owners \cup {new} |->
                          IF o = new
                          THEN [user |-> u, last_contacted |-> lc]
                          ELSE owners[o]]
         /\ offices' = OwnerCreateOffices(new, sel, set_as_primary)
         /\ seq' = [seq EXCEPT !.owner = new]
         /\ UNCHANGED <<employees, reports, now, cap, calls>>
         /\ Ret("owner_create", "redirect:home", <<u, new>>)
    ELSE /\ UNCHANGED <<store, now, cap, calls>>
         /\ Ret("owner_create", FormPage(method), None)

\* owner_create_from_office: the new owner joins the office; it becomes the
\* primary owner only when asked and the office has none.
owner_create_from_office(u, f, method, name, lc, sel, set_as_primary) ==
    LET new == seq.owner + 1 IN
    IF f \notin DOMAIN offices
    THEN /\ UNCHANGED <<store, now, cap, calls>>
         /\ Ret("owner_create_from_office", "404", None)
    ELSE IF ~OfficeAccessible(u, f)
    THEN /\ UNCHANGED <<store, now, cap, calls>>
         /\ Ret("owner_create_from_office", "redirect:home", None)
    ELSE IF method = "POST" /\ OwnerFormValid(u, name, sel)
    THEN /\ Inserted < cap
         /\ owners' = [o \in DOMAIN owners \cup {new} |->
                          IF o = new
                          THEN [user |-> u, last_contacted |-> lc]
                          ELSE owners[o]]
         /\ offices' = [offices EXCEPT
                           ![f].owners = @ \cup {new},
                           ![f].primary_owner =
                               IF set_as_primary /\ @ = None THEN new ELSE @]
         /\ seq' = [seq EXCEPT !.owner = new]
         /\ UNCHANGED <<employees, reports, now, cap, calls>>
         /\ Ret("owner_create_from_office", "redirect:office_dashboard",
                <<u, new>>)
    ELSE /\ UNCHANGED <<store, now, cap, calls>>
         /\ Ret("owner_create_from_office", FormPage(method), None)

\* owner_edit: the two loops over the owner's offices and the selected ones
OwnerEditOffices(o, sel, set_as_primary) ==
    [f \in DOMAIN offices |->
        IF sel = {} THEN offices[f]
        ELSE IF f \in sel
        THEN [offices[f] EXCEPT
                 !.owners = @ \cup {o},
                 !.primary_owner =
                     IF set_as_primary /\ @ = None THEN o ELSE @]
        ELSE IF f \in OwnerOffices(o)
        THEN [offices[f] EXCEPT
                 !.owners = @ \ {o},
                 !.primary_owner = IF @ = o THEN None ELSE @]
        ELSE offices[f]]

owner_edit(u, o, method, name, lc, sel, set_as_primary) ==
    IF o \notin DOMAIN owners
    THEN /\ UNCHANGED <<store, now, cap, calls>>
         /\ Ret("owner_edit", "404", None)
    ELSE IF owners[o].user # u
    THEN /\ UNCHANGED <<store, now, cap, calls>>
         /\ Ret("owner_edit", "redirect:home", <<u, o>>)
    ELSE IF method = "POST" /\ OwnerFormValid(u, name, sel)
    THEN /\ owners' = [owners EXCEPT ![o].last_contacted = lc]
         /\ offices' = OwnerEditOffices(o, sel, set_as_primary)
         /\ UNCHANGED <<employees, reports, seq, now, cap, calls>>
         /\ Ret("owner_edit", "redirect:owner_dashboard", <<u, o>>)
    ELSE /\ UNCHANGED <<store, now, cap, calls>>
         /\ Ret("owner_edit", FormPage(method), <<u, o>>)

owner_delete(u, o, method) ==
    IF o \notin DOMAIN owners
    THEN /\ UNCHANGED <<store, now, cap, calls>>
         /\ Ret("owner_delete", "404", None)
    ELSE IF method = "POST"
    THEN /\ CascadeDelete({o}, {}, {})
         /\ UNCHANGED <<now, cap, calls>>
         /\ Ret("owner_delete", "redirect:home", None)
    ELSE /\ UNCHANGED <<store, now, cap, calls>>
         /\ Ret("owner_delete", FormPage(method), None)

\* owner_dashboard renders the owner (context "owner": owner) for whoever asks.
owner_dashboard(u, o, method) ==
    /\ UNCHANGED <<store, now, cap, calls>>
    /\ IF o \notin DOMAIN owners
       THEN Ret("owner_dashboard", "404", None)
       ELSE Ret("owner_dashboard", "render", o)

\* ----------------------------------------------------------- office views
\* OfficeForm / EmployeeForm .is_valid(): the text fields are required.
OfficeFormValid(name) == name # ""
EmployeeFormValid(name) == name # ""

\* An office_create that sets the two foreign keys and leaves the
\* many-to-many owners empty.
office_create_without_owners(u, o, method, name, lc) ==
    LET new == seq.office + 1 IN
    IF o \notin DOMAIN owners
    THEN /\ UNCHANGED <<store, now, cap, calls>>
         /\ Ret("office_create", "404", None)
    ELSE IF method = "POST" /\ OfficeFormValid(name)
    THEN /\ Inserted < cap
         /\ offices' = [f \in DOMAIN offices \cup {new} |->
                           IF f = new
                           THEN [owners |-> {}, primary_owner |-> o,
                                 owner |-> o, last_contacted |-> lc]
                           ELSE offices[f]]
         /\ seq' = [seq EXCEPT !.office = new]
         /\ UNCHANGED <<owners, employees, reports, now, cap, calls>>
         /\ Ret("office_create", "redirect:owner_dashboard", None)
    ELSE /\ UNCHANGED <<store, now, cap, calls>>
         /\ Ret("office_create", FormPage(method), None)

office_create(u, o, method, name, lc) ==
    LET new == seq.office + 1 IN
    IF o \notin DOMAIN owners
    THEN /\ UNCHANGED <<store, now, cap, calls>>
         /\ Ret("office_create", "404", None)
    ELSE IF method = "POST" /\ OfficeFormValid(name)
    THEN /\ Inserted < cap
         /\ offices' = [f \in DOMAIN offices \cup {new} |->
                           IF f = new
                           THEN [owners |-> {o}, primary_owner |-> o,
                                 owner |-> o, last_contacted |-> lc]
                           ELSE offices[f]]
         /\ seq' = [seq EXCEPT !.office = new]
         /\ UNCHANGED <<owners, employees, reports, now, cap, calls>>
         /\ Ret("office_create", "redirect:owner_dashboard", None)
    ELSE /\ UNCHANGED <<store, now, cap, calls>>
         /\ Ret("office_create", FormPage(method), None)

office_edit(u, f, method, name, lc) ==
    IF f \notin DOMAIN offices
    THEN /\ UNCHANGED <<store, now, cap, calls>>
         /\ Ret("office_edit", "404", None)
    ELSE IF ~OfficeAccessible(u, f)
    THEN /\ UNCHANGED <<store, now, cap, calls>>
         /\ Ret("office_edit", "redirect:home", <<u, f>>)
    ELSE IF method = "POST" /\ OfficeFormValid(name)
    THEN /\ offices' = [offices EXCEPT ![f].last_contacted = lc]
         /\ UNCHANGED <<owners, employees, reports, seq, now, cap, calls>>
         /\ Ret("office_edit", "redirect:office_dashboard", <<u, f>>)
    ELSE /\ UNCHANGED <<store, now, cap, calls>>
         /\ Ret("office_edit", FormPage(method), <<u, f>>)

office_delete(u, f, method) ==
    IF f \notin DOMAIN offices
    THEN /\ UNCHANGED <<store, now, cap, calls>>
         /\ Ret("office_delete", "404", None)
    ELSE IF method = "POST"
    THEN /\ CascadeDelete({}, {f}, {})
         /\ UNCHANGED <<now, cap, calls>>
         /\ Ret("office_delete", "redirect:home", None)
    ELSE /\ UNCHANGED <<store, now, cap, calls>>
         /\ Ret("office_delete", FormPage(method), None)

office_dashboard(u, f, method) ==
    /\ UNCHANGED <<store, now, cap, calls>>
    /\ IF f \notin DOMAIN offices
       THEN Ret("office_dashboard", "404", None)
       ELSE Ret("office_dashboard", "render", f)

\* office_manage_owners.  sel: the posted 'owners' ids, prim: the posted
\* 'primary_owner' id (None when absent).  Owner.objects.get(id=prim,
\* user=request.user) raises DoesNotExist for an id that is not one of the
\* requester's owners; the request then ends in a 500, with its writes rolled
\* back under ATOMIC_REQUESTS (PostgreSQL settings) and kept under the
\* SQLite default.
ManageSelected(u, sel) == sel \cap UserOwners(u)

office_manage_owners(u, f, method, sel, prim) ==
    IF f \notin DOMAIN offices
    THEN /\ UNCHANGED <<store, now, cap, calls>>
         /\ Ret("office_manage_owners", "404", None)
    ELSE IF ~OfficeAccessible(u, f)
    THEN /\ UNCHANGED <<store, now, cap, calls>>
         /\ Ret("office_manage_owners", "redirect:home", None)
    ELSE IF method # "POST"
    THEN /\ UNCHANGED <<store, now, cap, calls>>
         /\ Ret("office_manage_owners", FormPage(method), None)
    ELSE IF sel = {}
    THEN /\ offices' = [offices EXCEPT ![f].owners = {}]
         /\ UNCHANGED <<owners, employees, reports, seq, now, cap, calls>>
         /\ Ret("office_manage_owners", "redirect:office_dashboard", None)
    ELSE IF prim # None /\ prim \in sel
    THEN IF prim \in UserOwners(u)
         THEN /\ offices' = [offices EXCEPT
                                ![f].owners = ManageSelected(u, sel),
                                ![f].primary_owner = prim]
              /\ UNCHANGED <<owners, employees, reports, seq, now, cap, calls>>
              /\ Ret("office_manage_owners", "redirect:office_dashboard",
                     None)
         ELSE /\ \/ offices' = [offices EXCEPT
                                   ![f].owners = ManageSelected(u, sel)]
                 \/ offices' = offices
              /\ UNCHANGED <<owners, employees, reports, seq, now, cap, calls>>
              /\ Ret("office_manage_owners", "500", None)
    ELSE /\ offices' = [offices EXCEPT
                           ![f].owners = ManageSelected(u, sel),
                           ![f].primary_owner =
                               IF ManageSelected(u, sel) # {}
                               THEN Min(ManageSelected(u, sel)) ELSE @]
         /\ UNCHANGED <<owners, employees, reports, seq, now, cap, calls>>
         /\ Ret("office_manage_owners", "redirect:office_dashboard", None)

\* --------------------------------------------------------- employee views
employee_create(u, f, method, name) ==
    LET new == seq.employee + 1 IN
    IF f \notin DOMAIN offices
    THEN /\ UNCHANGED <<store, now, cap, calls>>
         /\ Ret("employee_create", "404", None)
    ELSE IF method = "POST" /\ EmployeeFormValid(name)
    THEN /\ Inserted < cap
         /\ employees' = [e \in DOMAIN employees \cup {new} |->
                             IF e = new
                             THEN [name |-> name, office |-> f,
                                   owner |-> offices[f].owner]
                             ELSE employees[e]]
         /\ seq' = [seq EXCEPT !.employee = new]
         /\ UNCHANGED <<owners, offices, reports, now, cap, calls>>
         /\ Ret("employee_create", "redirect:office_dashboard", None)
    ELSE /\ UNCHANGED <<store, now, cap, calls>>
         /\ Ret("employee_create", FormPage(method), None)

employee_edit(u, e, method, name) ==
    IF e \notin DOMAIN employees
    THEN /\ UNCHANGED <<store, now, cap, calls>>
         /\ Ret("employee_edit", "404", None)
    ELSE IF ~OfficeAccessible(u, employees[e].office)
    THEN /\ UNCHANGED <<store, now, cap, calls>>
         /\ Ret("employee_edit", "redirect:home", <<u, e>>)
    ELSE IF method = "POST" /\ EmployeeFormValid(name)
    THEN /\ employees' = [employees EXCEPT ![e].name = name]
         /\ UNCHANGED <<owners, offices, reports, seq, now, cap, calls>>
         /\ Ret("employee_edit", "redirect:office_dashboard", <<u, e>>)
    ELSE /\ UNCHANGED <<store, now, cap, calls>>
         /\ Ret("employee_edit", FormPage(method), <<u, e>>)

\* employee_delete deletes on every request method.
employee_delete(u, e, method) ==
    IF e \notin DOMAIN employees
    THEN /\ UNCHANGED <<store, now, cap, calls>>
         /\ Ret("employee_delete", "404", None)
    ELSE /\ CascadeDelete({}, {}, {e})
         /\ UNCHANGED <<now, cap, calls>>
         /\ Ret("employee_delete", "redirect:office_dashboard", None)

\* ----------------------------------------------------------- report views
\* A ReportForm whose vibe is not validated.
ReportFormValidAnyVibe(content, vibe, calltype, office_sel, queryset) ==
    /\ content # ""
    /\ calltype \in calltype_choices
    /\ office_sel = None \/ office_sel \in queryset

\* ReportForm.is_valid(): content required, vibe within 1..10, calltype one
\* of the choices, and a selected office must be in the field's queryset
\* (Office.objects.none() without owner context, filter(owner=owner) with).
ReportFormValid(content, vibe, calltype, office_sel, queryset) ==
    /\ content # ""
    /\ vibe \in 1..10
    /\ calltype \in calltype_choices
    /\ office_sel = None \/ office_sel \in queryset

\* form.errors: the fields of a submitted ReportForm that failed validation.
ReportFormErrors(content, vibe, calltype, office_sel, queryset) ==
    {fld \in {"content", "vibe", "calltype", "office"} :
        \/ fld = "content" /\ content = ""
        \/ fld = "vibe" /\ vibe \notin 1..10
        \/ fld = "calltype" /\ calltype \notin calltype_choices
        \/ fld = "office" /\ office_sel # None /\ office_sel \notin queryset}

\* The context of the re-rendered report form: no errors on a GET.
ReportFormPage(method, content, vibe, calltype, office_sel, queryset) ==
    IF method = "POST"
    THEN ReportFormErrors(content, vibe, calltype, office_sel, queryset)
    ELSE None

ReportFormQueryset(o) ==
    IF o = None THEN {}
    ELSE {f \in DOMAIN offices : offices[f].owner = o}

\* Report.save: the primary owner is inferred from the employee's office or
\* the office when neither primary_owner nor owner is set.
ReportSave(rec) ==
    IF rec.primary_owner = None /\ rec.owner = None
    THEN IF rec.employee # None
         THEN [rec EXCEPT !.primary_owner =
                   OfficeGetPrimaryOwner(employees[rec.employee].office)]
         ELSE IF rec.office # None
         THEN [rec EXCEPT !.primary_owner = OfficeGetPrimaryOwner(rec.office)]
         ELSE rec
    ELSE rec

\* A commit that also clears the owners of the report's office.
CommitReportClearingOwners(rec) ==
    LET new == seq.report + 1 IN
    /\ Inserted < cap
    /\ reports' = [r \in DOMAIN reports \cup {new} |->
                      IF r = new THEN ReportSave(rec) ELSE reports[r]]
    /\ offices' = IF rec.office # None
                  THEN [offices EXCEPT ![rec.office].last_contacted = today,
                                       ![rec.office].owners = {}]
                  ELSE offices
    /\ owners' = IF rec.owner # None
                 THEN [owners EXCEPT ![rec.owner].last_contacted = today]
                 ELSE owners
    /\ seq' = [seq EXCEPT !.report = new]
    /\ UNCHANGED <<employees, now, cap, calls>>

\* The tail shared by the three log_call views: report.save(), then
\* last_contacted of report.office and of report.owner.
CommitReport(rec) ==
    LET new == seq.report + 1 IN
    /\ Inserted < cap
    /\ reports' = [r \in DOMAIN reports \cup {new} |->
                      IF r = new THEN ReportSave(rec) ELSE reports[r]]
    /\ offices' = IF rec.office # None
                  THEN [offices EXCEPT ![rec.office].last_contacted = today]
                  ELSE offices
    /\ owners' = IF rec.owner # None
                 THEN [owners EXCEPT ![rec.owner].last_contacted = today]
                 ELSE owners
    /\ seq' = [seq EXCEPT !.report = new]
    /\ UNCHANGED <<employees, now, cap, calls>>

\* A report stamped with the instant before the request.
NewReportStamped(calltype, e, f, o, u) ==
    [calltype |-> calltype, created_at |-> now - 1, employee |-> e,
     office |-> f, primary_owner |-> None, additional_owners |-> {},
     owner |-> o, author |-> u]

NewReport(calltype, e, f, o, u) ==
    [calltype |-> calltype, created_at |-> now, employee |-> e,
     office |-> f, primary_owner |-> None, additional_owners |-> {},
     owner |-> o, author |-> u]

log_call_from_employee(u, e, method, content, vibe, calltype, office_sel) ==
    IF e \notin DOMAIN employees
    THEN /\ UNCHANGED <<store, now, cap, calls>>
         /\ Ret("log_call_from_employee", "404", None)
    ELSE IF /\ method = "POST"
            /\ ReportFormValid(content, vibe, calltype, office_sel,
                               ReportFormQueryset(None))
    THEN /\ CommitReport(NewReport(calltype, e, employees[e].office,
                                   employees[e].owner, u))
         /\ Ret("log_call_from_employee", "redirect:office_dashboard", None)
    ELSE /\ UNCHANGED <<store, now, cap, calls>>
         /\ Ret("log_call_from_employee", FormPage(method),
                ReportFormPage(method, content, vibe, calltype, office_sel,
                               ReportFormQueryset(None)))

log_call_from_office(u, f, method, content, vibe, calltype, office_sel) ==
    IF f \notin DOMAIN offices
    THEN /\ UNCHANGED <<store, now, cap, calls>>
         /\ Ret("log_call_from_office", "404", None)
    ELSE IF /\ method = "POST"
            /\ ReportFormValid(content, vibe, calltype, office_sel,
                               ReportFormQueryset(None))
    THEN /\ CommitReport(NewReport(calltype, None, f, offices[f].owner, u))
         /\ Ret("log_call_from_office", "redirect:office_dashboard", None)
    ELSE /\ UNCHANGED <<store, now, cap, calls>>
         /\ Ret("log_call_from_office", FormPage(method),
                ReportFormPage(method, content, vibe, calltype, office_sel,
                               ReportFormQueryset(None)))

\* log_call_from_owner: a selected office whose owner_id differs from the
\* owner is dropped from the report before it is saved.
OwnerReportOffice(o, office_sel) ==
    IF office_sel # None /\ offices[office_sel].owner # o
    THEN None ELSE office_sel

log_call_from_owner(u, o, method, content, vibe, calltype, office_sel) ==
    IF o \notin DOMAIN owners
    THEN /\ UNCHANGED <<store, now, cap, calls>>
         /\ Ret("log_call_from_owner", "404", None)
    ELSE IF /\ method = "POST"
            /\ ReportFormValid(content, vibe, calltype, office_sel,
                               ReportFormQueryset(o))
    THEN /\ CommitReport(NewReport(calltype, None,
                                   OwnerReportOffice(o, office_sel), o, u))
         /\ Ret("log_call_from_owner", "redirect:owner_dashboard", None)
    ELSE /\ UNCHANGED <<store, now, cap, calls>>
         /\ Ret("log_call_from_owner", FormPage(method),
                ReportFormPage(method, content, vibe, calltype, office_sel,
                               ReportFormQueryset(o)))

report_dashboard(u, r, method) ==
    /\ UNCHANGED <<store, now, cap, calls>>
    /\ IF r \notin DOMAIN reports
       THEN Ret("report_dashboard", "404", None)
       ELSE Ret("report_dashboard", "render", r)

\* ----------------------------------------------------- activity_dashboard
\* A query parameter that does not parse as a date.
BadDate == -1

RECURSIVE Sum(_, _)
\* sum(f[x] for x in S)
Sum(f, S) ==
    IF S = {} THEN 0
    ELSE LET x == CHOOSE y \in S : TRUE IN f[x] + Sum(f, S \ {x})

\* DateRangeForm(request.GET if request.GET else None).is_valid(): the form
\* is unbound without query parameters and invalid with an unparsable one.
DateRangeFormValid(start_date, end_date) ==
    /\ start_date # None \/ end_date # None
    /\ start_date # BadDate
    /\ end_date # BadDate

\* Report.objects.filter(author=user), then created_at__gte=start_date and
\* created_at__lte=end_date when the form is valid and the date is given; a
\* date compared with created_at is that date at midnight.
ActivityReports(u, start_date, end_date) ==
    {r \in DOMAIN reports :
        /\ reports[r].author = u
        /\ DateRangeFormValid(start_date, end_date) =>
              /\ start_date # None =>
                    reports[r].created_at >= Midnight(start_date)
              /\ end_date # None =>
                    reports[r].created_at <= Midnight(end_date)}

\* The matrix: a zero row per owner of the user, a row for every other
\* owner__id of the aggregated rows (None included), and the counts of
\* reports.values('owner__id', 'owner__name', 'calltype').annotate(Count('id')).
ActivityMatrix(u, rs) ==
    [oid \in UserOwners(u) \cup {reports[r].owner : r \in rs} |->
        [ct \in calltype_choices |->
            Cardinality({r \in rs : /\ reports[r].owner = oid
                                    /\ reports[r].calltype = ct})]]

\* The context of the rendered dashboard; the totals run over owners_list.
ActivityContext(u, start_date, end_date) ==
    LET rs == ActivityReports(u, start_date, end_date)
        matrix == ActivityMatrix(u, rs)
        totals_by_owner ==
            [o \in UserOwners(u) |-> Sum(matrix[o], calltype_choices)]
    IN  [user |-> u,
         start_date |-> start_date,
         end_date |-> end_date,
         show_table |-> DateRangeFormValid(start_date, end_date),
         reports |-> rs,
         matrix |-> matrix,
         totals_by_owner |-> totals_by_owner,
         totals_by_calltype |->
             [ct \in calltype_choices |->
                 Sum([o \in UserOwners(u) |-> matrix[o][ct]], UserOwners(u))],
         grand_total |-> Sum(totals_by_owner, UserOwners(u))]

activity_dashboard(u, start_date, end_date) ==
    /\ UNCHANGED <<store, now, cap, calls>>
    /\ Ret("activity_dashboard", "render",
           ActivityContext(u, start_date, end_date))

\* ------------------------------------------------------------------- home
\* The calendar of the modelled days: day 1 is a Monday and 1 January, so
\* the days before it are week 52 and December of the year before, and the
\* days reached are in January. IsoWeek is isocalendar()[1] and the __week
\* lookup, MonthOf is .month and __month, YearOf is .year and __year (counted
\* from the year before day 1).
IsoWeek(d) == (((d - 1) \div DaysPerWeek) % 52) + 1
MonthOf(d) == IF d < 1 THEN 12 ELSE IF d <= 31 THEN 1 ELSE 2
YearOf(d) == IF d < 1 THEN 0 ELSE 1

\* offices of home: the offices one of the requester's owners is linked to.
HomeOffices(u) ==
    {f \in DOMAIN offices : \/ offices[f].owners \cap UserOwners(u) # {}
                            \/ offices[f].primary_owner \in UserOwners(u)
                            \/ offices[f].owner \in UserOwners(u)}

\* reports_qs of home: the reports on an owner of the requester, by the
\* legacy field, or on an employee of one of those offices.
HomeReports(u) ==
    {r \in DOMAIN reports :
        \/ reports[r].owner \in UserOwners(u)
        \/ /\ reports[r].employee # None
           /\ employees[reports[r].employee].office \in HomeOffices(u)}

\* timedelta(days=...) of the rolling windows.
RollingDays ==
    [weekly |-> DaysPerWeek, monthly |-> 30, quarterly |-> 90, yearly |-> 365]

\* The report set of each window of home on current_date; last_month_number
\* is the window the view names last_month_reports, the reports of the
\* current month.
HomeWindows(u, current_date) ==
    LET On(r) == DateOf(reports[r].created_at)
        Since(days) ==
            {r \in HomeReports(u) :
                reports[r].created_at >= Midnight(current_date - days)}
    IN [today |-> {r \in HomeReports(u) : On(r) = current_date},
        this_week_number |->
            {r \in HomeReports(u) :
                /\ IsoWeek(On(r)) = IsoWeek(current_date)
                /\ YearOf(On(r)) = YearOf(current_date)},
        last_week_number |->
            {r \in HomeReports(u) :
                /\ IsoWeek(On(r)) = IsoWeek(current_date - DaysPerWeek)
                /\ YearOf(On(r)) = YearOf(current_date)},
        last_month_number |->
            {r \in HomeReports(u) :
                /\ MonthOf(On(r)) = MonthOf(current_date)
                /\ YearOf(On(r)) = YearOf(current_date)},
        weekly |-> Since(RollingDays.weekly),
        monthly |-> Since(RollingDays.monthly),
        quarterly |-> Since(RollingDays.quarterly),
        yearly |-> Since(RollingDays.yearly)]

\* queryset.filter(calltype='fov').count()
FovCount(rs) == Cardinality({r \in rs : reports[r].calltype = "fov"})

\* reports_qs[:5] under order_by('-created_at'): the newest reports; which
\* of several reports of the same instant come first is the database's
\* choice.
NewestFirst(rs) ==
    {S \in SUBSET rs :
        /\ Cardinality(S) = IF Cardinality(rs) < RecentCount
                            THEN Cardinality(rs) ELSE RecentCount
        /\ \A a \in S, b \in rs \ S :
              reports[a].created_at >= reports[b].created_at}

\* The context home renders, under the names of the view; recent is the
\* slice the database returned for reports_qs[:5].
HomeContext(u, recent) ==
    LET W == HomeWindows(u, today)
    IN [user |-> u,
        owners |-> UserOwners(u),
        offices |-> HomeOffices(u),
        reports |-> recent,
        current_date |-> today,
        this_week_number_reports |-> W.this_week_number,
        last_week_number_reports |-> W.last_week_number,
        today_reports_count |-> Cardinality(W.today),
        today_fovs |-> FovCount(W.today),
        this_week_number_reports_count |-> Cardinality(W.this_week_number),
        this_week_number_fov_counts |-> FovCount(W.this_week_number),
        last_week_number_reports_count |-> Cardinality(W.last_week_number),
        last_week_number_fov_counts |-> FovCount(W.last_week_number),
        last_month_number_reports_count |-> Cardinality(W.last_month_number),
        last_month_number_fov_counts |-> FovCount(W.last_week_number),
        weekly_reports_count |-> Cardinality(W.weekly),
        weekly_fovs |-> FovCount(W.weekly),
        monthly_reports_count |-> Cardinality(W.monthly),
        monthly_fovs |-> FovCount(W.monthly),
        quarterly_reports_count |-> Cardinality(W.quarterly),
        quarterly_fovs |-> FovCount(W.quarterly),
        yearly_reports_count |-> Cardinality(W.yearly),
        yearly_fovs |-> FovCount(W.yearly),
        today_owner_reports |->
            {r \in W.today : reports[r].owner \in UserOwners(u)},
        today_employee_reports |->
            {r \in W.today :
                /\ reports[r].employee # None
                /\ employees[reports[r].employee].office \in HomeOffices(u)}]

home(u) ==
    /\ UNCHANGED <<store, now, cap, calls>>
    /\ \E recent \in NewestFirst(HomeReports(u)) :
          Ret("home", "render", HomeContext(u, recent))

\* ---------------------------------------------------------- model methods
\* An add_owner that makes the owner primary only when asked to.
OfficeAddOwnerOnlyWhenAsked(f, o, set_as_primary) ==
    [offices[f] EXCEPT
        !.owners = @ \cup {o},
        !.primary_owner = IF set_as_primary THEN o ELSE @]

\* Office.add_owner(owner_obj, set_as_primary)
OfficeAddOwner(f, o, set_as_primary) ==
    [offices[f] EXCEPT
        !.owners = @ \cup {o},
        !.primary_owner =
            IF set_as_primary \/ offices[f].primary_owner = None THEN o ELSE @]

add_owner(f, o, set_as_primary) ==
    /\ f \in DOMAIN offices
    /\ o \in DOMAIN owners
    /\ offices' = [offices EXCEPT ![f] = OfficeAddOwner(f, o, set_as_primary)]
    /\ UNCHANGED <<owners, employees, reports, seq, now, cap, calls>>
    /\ Ret("Office.add_owner", "None", <<f, o>>)

\* Office.remove_owner(owner_obj): a silent no-op unless is_owner(owner_obj);
\* a removed primary owner is replaced by remaining_owners.first().
OfficeRemoveOwner(f, o) ==
    IF OfficeIsOwner(f, o)
    THEN [offices[f] EXCEPT
             !.owners = @ \ {o},
             !.primary_owner =
                 IF @ = o
                 THEN IF offices[f].owners \ {o} # {}
                      THEN Min(offices[f].owners \ {o}) ELSE None
                 ELSE @]
    ELSE offices[f]

\* A remove_owner that reports an owner that is not one of the office's.
RemoveOwnerOutcomeRaises(f, o) ==
    IF OfficeIsOwner(f, o) THEN "None" ELSE "NotAnOwner"

\* What the caller of Office.remove_owner gets: the method returns None on
\* both paths and raises nothing.
RemoveOwnerOutcome(f, o) == "None"

remove_owner(f, o) ==
    /\ f \in DOMAIN offices
    /\ o \in DOMAIN owners
    /\ offices' = [offices EXCEPT ![f] = OfficeRemoveOwner(f, o)]
    /\ UNCHANGED <<owners, employees, reports, seq, now, cap, calls>>
    /\ Ret("Office.remove_owner", RemoveOwnerOutcome(f, o), <<f, o>>)

\* ------------------------------------------------------- concurrent calls
\* Office.add_owner and Office.remove_owner statement by statement, for
\* callers that run them at the same time on the shared database.  A caller
\* holds its own Office instance (self), loaded when the call begins; every
\* query and every write is one step, and self.save() writes the columns of
\* the instance over the row, whatever was written since the load.
OfficeInstance(f) ==
    [primary_owner |-> offices[f].primary_owner,
     owner |-> offices[f].owner,
     last_contacted |-> offices[f].last_contacted]

Goto(c, pc) == calls' = [calls EXCEPT ![c].pc = pc]

Return(c, op) ==
    /\ calls' = [calls EXCEPT ![c] = Idle]
    /\ Ret(op, "None", <<calls[c].office, calls[c].owner>>)

CallTargetsExist(c) ==
    /\ calls[c].office \in DOMAIN offices
    /\ calls[c].owner \in DOMAIN owners

BeginCall(c, op, f, o, set_as_primary) ==
    /\ calls[c] = Idle
    /\ f \in DOMAIN offices
    /\ o \in DOMAIN owners
    /\ calls' = [calls EXCEPT ![c] =
                    [pc |-> IF op = "Office.add_owner"
                            THEN "owners.add" ELSE "owners.exists",
                     op |-> op, office |-> f, owner |-> o,
                     set_as_primary |-> set_as_primary,
                     self |-> OfficeInstance(f)]]
    /\ UNCHANGED <<store, now, cap, response>>

\* add_owner: self.owners.add(owner_obj), then the test on the instance.
AddOwnerAdd(c) ==
    LET k == calls[c] IN
    /\ k.pc = "owners.add"
    /\ CallTargetsExist(c)
    /\ offices' = [offices EXCEPT ![k.office].owners = @ \cup {k.owner}]
    /\ IF k.set_as_primary \/ k.self.primary_owner = None
       THEN /\ calls' = [calls EXCEPT ![c].pc = "save",
                                      ![c].self.primary_owner = k.owner]
            /\ UNCHANGED response
       ELSE Return(c, k.op)
    /\ UNCHANGED <<owners, employees, reports, seq, now, cap>>

\* is_owner: self.owners.exists(), with the fallback to the instance's
\* legacy owner when there are no owners.
RemoveOwnerExists(c) ==
    LET k == calls[c] IN
    /\ k.pc = "owners.exists"
    /\ CallTargetsExist(c)
    /\ IF offices[k.office].owners # {}
       THEN Goto(c, "owners.filter") /\ UNCHANGED response
       ELSE IF k.self.owner # None /\ k.self.owner = k.owner
       THEN Goto(c, "owners.remove") /\ UNCHANGED response
       ELSE Return(c, k.op)
    /\ UNCHANGED <<store, now, cap>>

\* is_owner: self.owners.filter(id=owner_obj.id).exists()
RemoveOwnerFilter(c) ==
    LET k == calls[c] IN
    /\ k.pc = "owners.filter"
    /\ CallTargetsExist(c)
    /\ IF k.owner \in offices[k.office].owners
       THEN Goto(c, "owners.remove") /\ UNCHANGED response
       ELSE Return(c, k.op)
    /\ UNCHANGED <<store, now, cap>>

\* self.owners.remove(owner_obj), then the test on the instance.
RemoveOwnerRemove(c) ==
    LET k == calls[c] IN
    /\ k.pc = "owners.remove"
    /\ CallTargetsExist(c)
    /\ offices' = [offices EXCEPT ![k.office].owners = @ \ {k.owner}]
    /\ IF k.self.primary_owner = k.owner
       THEN Goto(c, "remaining.exists") /\ UNCHANGED response
       ELSE Return(c, k.op)
    /\ UNCHANGED <<owners, employees, reports, seq, now, cap>>

\* remaining_owners.exists()
RemoveOwnerRemainingExists(c) ==
    LET k == calls[c] IN
    /\ k.pc = "remaining.exists"
    /\ CallTargetsExist(c)
    /\ IF offices[k.office].owners # {}
       THEN Goto(c, "remaining.first")
       ELSE calls' = [calls EXCEPT ![c].pc = "save",
                                   ![c].self.primary_owner = None]
    /\ UNCHANGED <<store, now, cap, response>>

\* remaining_owners.first(): the owner of the lowest key, None when the
\* owners have gone since exists().
RemoveOwnerRemainingFirst(c) ==
    LET k == calls[c] IN
    /\ k.pc = "remaining.first"
    /\ CallTargetsExist(c)
    /\ calls' = [calls EXCEPT
                    ![c].pc = "save",
                    ![c].self.primary_owner =
                        IF offices[k.office].owners # {}
                        THEN Min(offices[k.office].owners) ELSE None]
    /\ UNCHANGED <<store, now, cap, response>>

\* self.save(): every column of the instance is written.
CallSave(c) ==
    LET k == calls[c] IN
    /\ k.pc = "save"
    /\ CallTargetsExist(c)
    /\ offices' = [offices EXCEPT
                      ![k.office].primary_owner = k.self.primary_owner,
                      ![k.office].owner = k.self.owner,
                      ![k.office].last_contacted = k.self.last_contacted]
    /\ Return(c, k.op)
    /\ UNCHANGED <<owners, employees, reports, seq, now, cap>>

\* The office or the owner of the call was deleted while it ran: the next
\* statement fails and the call ends in a database error.
CallFails(c) ==
    /\ calls[c] # Idle
    /\ ~CallTargetsExist(c)
    /\ calls' = [calls EXCEPT ![c] = Idle]
    /\ Ret(calls[c].op, "500", <<calls[c].office, calls[c].owner>>)
    /\ UNCHANGED <<store, now, cap>>

\* Report.add_additional_owner(owner_obj)
ReportAddAdditionalOwner(r, o) ==
    IF o # ReportGetPrimaryOwner(r)
    THEN [reports[r] EXCEPT !.additional_owners = @ \cup {o}]
    ELSE reports[r]

add_additional_owner(r, o) ==
    /\ r \in DOMAIN reports
    /\ o \in DOMAIN owners
    /\ reports' = [reports EXCEPT ![r] = ReportAddAdditionalOwner(r, o)]
    /\ UNCHANGED <<owners, offices, employees, seq, now, cap, calls>>
    /\ Ret("Report.add_additional_owner", "None", <<r, o>>)

\* Report.migrate_owner_relationships()
migrate_owner_relationships(r) ==
    /\ r \in DOMAIN reports
    /\ IF reports[r].owner # None /\ reports[r].primary_owner = None
       THEN /\ reports' = [reports EXCEPT ![r] =
                   ReportSave([reports[r] EXCEPT
                                  !.primary_owner = reports[r].owner])]
            /\ Ret("Report.migrate_owner_relationships", "True", r)
       ELSE /\ UNCHANGED reports
            /\ Ret("Report.migrate_owner_relationships", "False", r)
    /\ UNCHANGED <<owners, offices, employees, seq, now, cap, calls>>

\* report.save() on a stored report
report_save(r) ==
    /\ r \in DOMAIN reports
    /\ reports' = [reports EXCEPT ![r] = ReportSave(reports[r])]
    /\ UNCHANGED <<owners, offices, employees, seq, now, cap, calls>>
    /\ Ret("Report.save", "None", r)

\* create_sample_multi_owner_office(): Owner.objects.all()[:2] is an
\* unordered queryset, so which two owners come back, and in which order, is
\* the database's choice.  The office gets no legacy owner.
create_sample_multi_owner_office(o1, o2) ==
    LET new == seq.office + 1 IN
    /\ o1 \in DOMAIN owners
    /\ o2 \in DOMAIN owners
    /\ o1 # o2
    /\ Inserted < cap
    /\ offices' = [f \in DOMAIN offices \cup {new} |->
                      IF f = new
                      THEN [owners |-> {o1, o2}, primary_owner |-> o1,
                            owner |-> None, last_contacted |-> None]
                      ELSE offices[f]]
    /\ seq' = [seq EXCEPT !.office = new]
    /\ UNCHANGED <<owners, employees, reports, now, cap, calls>>
    /\ Ret("create_sample_multi_owner_office", "office", new)

\* ------------------------------------------------- migrate_to_multi_owner
\* Office.is_owner on an office row as the script has it at that point.
IsOwner(off, o) ==
    IF off.owners # {} THEN o \in off.owners
    ELSE IF off.owner # None THEN off.owner = o
    ELSE FALSE

\* A migrate_single_owner_to_multi that looks at the legacy owner only.
OfficeHasLegacyOwner(off) == off.owner # None

\* Office.migrate_single_owner_to_multi: its return value, and the row after.
OfficeMigrates(off) == off.owner # None /\ off.primary_owner = None

OfficeMigrated(off) ==
    IF OfficeMigrates(off)
    THEN [off EXCEPT !.primary_owner = off.owner,
                     !.owners = @ \cup {off.owner}]
    ELSE off

\* Employee.migrate_owner_relationship on employee e, given the offices and
\* employees as the loop has left them: the office is read when the method
\* runs, add_owner(owner, set_as_primary=True) makes the owner the primary
\* owner, and get_primary_owner is primary_owner or owner.  migrated counts
\* the calls that returned True.
EmployeeMigrated(e, st) ==
    LET emp == st.employees[e]
        f == emp.office
        primary == IF st.offices[f].primary_owner # None
                   THEN st.offices[f].primary_owner
                   ELSE st.offices[f].owner
    IN  IF emp.owner # None /\ f # None
        THEN [st EXCEPT
                 !.offices[f] =
                     IF IsOwner(@, emp.owner) THEN @
                     ELSE [@ EXCEPT !.owners = @ \cup {emp.owner},
                                    !.primary_owner = emp.owner],
                 !.migrated = @ + 1]
        ELSE IF f # None /\ primary # None
        THEN [st EXCEPT !.employees[e].owner = primary,
                        !.migrated = @ + 1]
        ELSE st

\* Report.migrate_owner_relationships: its return value, and the row after
\* (save() infers nothing for a report that has a primary owner).
ReportMigrates(rec) == rec.owner # None /\ rec.primary_owner = None

ReportMigrated(rec) ==
    IF ReportMigrates(rec) THEN [rec EXCEPT !.primary_owner = rec.owner]
    ELSE rec

\* Employee.Meta.ordering = ['name']: the orders Employee.objects.all() can
\* come back in; rows with equal names come in the database's order.
NameRank(name) == IF name = "n1" THEN 1 ELSE 2

EmployeeOrders ==
    LET n == Cardinality(DOMAIN employees) IN
    {order \in [1..n -> DOMAIN employees] :
        /\ \A i, j \in 1..n : i # j => order[i] # order[j]
        /\ \A i, j \in 1..n :
               i < j => NameRank(employees[order[i]].name)
                           <= NameRank(employees[order[j]].name)}

RECURSIVE MigrateEmployees(_, _, _)
MigrateEmployees(order, i, st) ==
    IF i > Len(order) THEN st
    ELSE MigrateEmployees(order, i + 1, EmployeeMigrated(order[i], st))

\* migrate_all_data(): the three loops, offices, then employees, then
\* reports; the rows they leave and the number of employees migrated.
MigratedStore(order) ==
    LET st == MigrateEmployees(order, 1,
                  [offices |-> [f \in DOMAIN offices |->
                                   OfficeMigrated(offices[f])],
                   employees |-> employees,
                   migrated |-> 0])
    IN  [offices |-> st.offices,
         employees |-> st.employees,
         reports |-> [r \in DOMAIN reports |-> ReportMigrated(reports[r])],
         employees_migrated |-> st.migrated]

\* migrate_all_data() and the counts it returns.
migrate_all_data(order) ==
    LET after == MigratedStore(order) IN
    /\ offices' = after.offices
    /\ employees' = after.employees
    /\ reports' = after.reports
    /\ UNCHANGED <<owners, seq, now, cap, calls>>
    /\ Ret("migrate_all_data", "dict",
           [offices_migrated |->
                Cardinality({f \in DOMAIN offices :
                                OfficeMigrates(offices[f])}),
            employees_migrated |-> after.employees_migrated,
            reports_migrated |->
                Cardinality({r \in DOMAIN reports :
                                ReportMigrates(reports[r])}),
            offices_with_primary |->
                Cardinality({f \in DOMAIN offices :
                                after.offices[f].primary_owner # None}),
            reports_with_primary |->
                Cardinality({r \in DOMAIN reports :
                                after.reports[r].primary_owner # None})])

\* ------------------------------------------------------------------- Next
\* Inputs of the requests.  A GET carries no form; a POST carries one of the
\* forms below.
Submitted(method, blank, forms) == IF method = "GET" THEN {blank} ELSE forms

\* The optional last_contacted field of OwnerForm and OfficeForm: left blank,
\* or today's date (the field's initial value).
DateInputs == {None, today}
NoDate == {None}

\* OwnerForm <<name, last_contacted, offices, set_as_primary>>
BlankOwnerForm == <<"", None, {}, FALSE>>
OwnerForms(dates) ==
    {BlankOwnerForm} \cup
    {<<"n1", lc, sel, sp>> :
        lc \in dates, sel \in SUBSET DOMAIN offices, sp \in BOOLEAN}

\* OfficeForm <<name, last_contacted>>
BlankOfficeForm == <<"", None>>
OfficeForms(dates) == {BlankOfficeForm} \cup {<<"n1", lc>> : lc \in dates}

\* EmployeeForm: name
EmployeeForms == {"", "n1", "n2"}

\* ReportForm <<content, vibe, calltype, office>>: valid ones, and one per way
\* of being invalid.
BlankReportForm == <<"", 5, "email", None>>
ReportForms ==
    {BlankReportForm, <<"text", 0, "phone", None>>,
     <<"text", 11, "email", None>>, <<"text", 5, "sms", None>>} \cup
    {<<"text", 5, ct, f>> :
        ct \in {"phone", "fov"}, f \in {None} \cup DOMAIN offices}

OwnerCreate(dates) ==
    \E u \in Users, m \in Methods :
        \E fm \in Submitted(m, BlankOwnerForm, OwnerForms(dates)) :
            owner_create(u, m, fm[1], fm[2], fm[3], fm[4])
\* owner_create with no office selected in the form.
OwnerCreateAlone ==
    \E u \in Users, m \in Methods :
        \E name \in Submitted(m, "", {"", "n1"}) :
            owner_create(u, m, name, None, {}, FALSE)
OwnerCreateFromOffice(dates) ==
    \E u \in Users, f \in OfficeIds, m \in Methods :
        \E fm \in Submitted(m, BlankOwnerForm, OwnerForms(dates)) :
            owner_create_from_office(u, f, m, fm[1], fm[2], fm[3], fm[4])
OwnerEdit(dates) ==
    \E u \in Users, o \in OwnerIds, m \in Methods :
        \E fm \in Submitted(m, BlankOwnerForm, OwnerForms(dates)) :
            owner_edit(u, o, m, fm[1], fm[2], fm[3], fm[4])
OwnerDelete ==
    \E u \in Users, o \in OwnerIds, m \in Methods : owner_delete(u, o, m)
OwnerDashboard ==
    \E u \in Users, o \in OwnerIds, m \in Methods : owner_dashboard(u, o, m)
OfficeCreate(dates) ==
    \E u \in Users, o \in OwnerIds, m \in Methods :
        \E fm \in Submitted(m, BlankOfficeForm, OfficeForms(dates)) :
            office_create(u, o, m, fm[1], fm[2])
OfficeEdit(dates) ==
    \E u \in Users, f \in OfficeIds, m \in Methods :
        \E fm \in Submitted(m, BlankOfficeForm, OfficeForms(dates)) :
            office_edit(u, f, m, fm[1], fm[2])
OfficeDelete ==
    \E u \in Users, f \in OfficeIds, m \in Methods : office_delete(u, f, m)
OfficeDashboard ==
    \E u \in Users, f \in OfficeIds, m \in Methods : office_dashboard(u, f, m)
OfficeManageOwners ==
    \E u \in Users, f \in OfficeIds, m \in Methods :
        \E sel \in Submitted(m, {}, SUBSET DOMAIN owners) :
            \E prim \in {None} \cup sel :
                office_manage_owners(u, f, m, sel, prim)
EmployeeCreate ==
    \E u \in Users, f \in OfficeIds, m \in Methods :
        \E n \in Submitted(m, "", EmployeeForms) : employee_create(u, f, m, n)
EmployeeEdit ==
    \E u \in Users, e \in EmployeeIds, m \in Methods :
        \E n \in Submitted(m, "", EmployeeForms) : employee_edit(u, e, m, n)
EmployeeDelete ==
    \E u \in Users, e \in EmployeeIds, m \in Methods : employee_delete(u, e, m)
LogCallFromEmployee ==
    \E u \in Users, e \in EmployeeIds, m \in Methods :
        \E fm \in Submitted(m, BlankReportForm, ReportForms) :
            log_call_from_employee(u, e, m, fm[1], fm[2], fm[3], fm[4])
LogCallFromOffice ==
    \E u \in Users, f \in OfficeIds, m \in Methods :
        \E fm \in Submitted(m, BlankReportForm, ReportForms) :
            log_call_from_office(u, f, m, fm[1], fm[2], fm[3], fm[4])
LogCallFromOwner ==
    \E u \in Users, o \in OwnerIds, m \in Methods :
        \E fm \in Submitted(m, BlankReportForm, ReportForms) :
            log_call_from_owner(u, o, m, fm[1], fm[2], fm[3], fm[4])
ReportDashboard ==
    \E u \in Users, r \in ReportIds, m \in Methods : report_dashboard(u, r, m)
AddOwner ==
    \E f \in DOMAIN offices, o \in DOMAIN owners, sp \in BOOLEAN :
        add_owner(f, o, sp)
RemoveOwner ==
    \E f \in DOMAIN offices, o \in DOMAIN owners : remove_owner(f, o)
AddAdditionalOwner ==
    \E r \in DOMAIN reports, o \in DOMAIN owners : add_additional_owner(r, o)
MigrateOwnerRelationships ==
    \E r \in DOMAIN reports : migrate_owner_relationships(r)
ReportResave ==
    \E r \in DOMAIN reports : report_save(r)
CreateSampleOffice ==
    \E o1 \in DOMAIN owners, o2 \in DOMAIN owners :
        create_sample_multi_owner_office(o1, o2)
MigrateAllData ==
    \E order \in EmployeeOrders : migrate_all_data(order)

\* The start_date and end_date query parameters.
DateParams == {None, BadDate} \cup 1..MaxDay

ActivityDashboard ==
    \E u \in Users, sd \in DateParams, ed \in DateParams :
        activity_dashboard(u, sd, ed)

Home == \E u \in Users : home(u)

ConcurrentBegin ==
    \E c \in Callers, f \in DOMAIN offices, o \in DOMAIN owners :
        \/ \E sp \in BOOLEAN : BeginCall(c, "Office.add_owner", f, o, sp)
        \/ BeginCall(c, "Office.remove_owner", f, o, FALSE)
ConcurrentAddOwner ==
    \E c \in Callers : AddOwnerAdd(c)
ConcurrentRemoveOwner ==
    \E c \in Callers :
        \/ RemoveOwnerExists(c)
        \/ RemoveOwnerFilter(c)
        \/ RemoveOwnerRemove(c)
        \/ RemoveOwnerRemainingExists(c)
        \/ RemoveOwnerRemainingFirst(c)
ConcurrentSave == \E c \in Callers : CallSave(c)
ConcurrentFails == \E c \in Callers : CallFails(c)

Next ==
    \/ ConcurrentBegin
    \/ ConcurrentAddOwner
    \/ ConcurrentRemoveOwner
    \/ ConcurrentSave
    \/ ConcurrentFails
    \/ Tick
    \/ WeekPasses
    \/ Home
    \/ ActivityDashboard
    \/ OwnerCreate(DateInputs)
    \/ OwnerCreateFromOffice(DateInputs)
    \/ OwnerEdit(DateInputs)
    \/ OwnerDelete
    \/ OwnerDashboard
    \/ OfficeCreate(DateInputs)
    \/ OfficeEdit(DateInputs)
    \/ OfficeDelete
    \/ OfficeDashboard
    \/ OfficeManageOwners
    \/ EmployeeCreate
    \/ EmployeeEdit
    \/ EmployeeDelete
    \/ LogCallFromEmployee
    \/ LogCallFromOffice
    \/ LogCallFromOwner
    \/ ReportDashboard
    \/ AddOwner
    \/ RemoveOwner
    \/ AddAdditionalOwner
    \/ MigrateOwnerRelationships
    \/ ReportResave
    \/ CreateSampleOffice
    \/ MigrateAllData

Init == InitCap(MaxEntities)

Spec == Init /\ [][Next]_vars

\* The operations that create owners and offices and change which owners an
\* office has; the forms' last_contacted is left blank.
NextOwnership ==
    \/ OwnerCreate(NoDate)
    \/ OwnerCreateFromOffice(NoDate)
    \/ OwnerEdit(NoDate)
    \/ OwnerDelete
    \/ OfficeCreate(NoDate)
    \/ OfficeManageOwners
    \/ AddOwner
    \/ RemoveOwner

SpecOwnership == InitCap(MaxOwnership) /\ [][NextOwnership]_vars

\* The views that guard a target by the requester's scope, with the views
\* that create the targets; owner_edit also moves owners between offices.
NextEdit ==
    \/ OwnerCreate(NoDate)
    \/ OfficeCreate(NoDate)
    \/ EmployeeCreate
    \/ OwnerEdit(NoDate)
    \/ OfficeEdit(DateInputs)
    \/ EmployeeEdit

SpecEdit == InitCap(MaxEdit) /\ [][NextEdit]_vars

\* Every view, requested by either user.
NextViews ==
    \/ OwnerCreate(NoDate)
    \/ OwnerCreateFromOffice(NoDate)
    \/ OwnerEdit(NoDate)
    \/ OwnerDelete
    \/ OwnerDashboard
    \/ OfficeCreate(NoDate)
    \/ OfficeEdit(NoDate)
    \/ OfficeDelete
    \/ OfficeDashboard
    \/ OfficeManageOwners
    \/ EmployeeCreate
    \/ EmployeeEdit
    \/ EmployeeDelete
    \/ LogCallFromEmployee
    \/ LogCallFromOffice
    \/ LogCallFromOwner
    \/ ReportDashboard

SpecViews == InitCap(MaxViews) /\ [][NextViews]_vars

\* Report authoring: the three log_call views, the views and methods that
\* create their targets and change an office's owners, and the Report
\* methods.
NextReport ==
    \/ OwnerCreate(NoDate)
    \/ OfficeCreate(NoDate)
    \/ CreateSampleOffice
    \/ EmployeeCreate
    \/ AddOwner
    \/ RemoveOwner
    \/ LogCallFromEmployee
    \/ LogCallFromOffice
    \/ LogCallFromOwner
    \/ AddAdditionalOwner
    \/ MigrateOwnerRelationships
    \/ ReportResave

SpecReport == InitCap(MaxReport) /\ [][NextReport]_vars

\* The three log_call views, with the views that create their targets.
NextLog ==
    \/ OwnerCreate(NoDate)
    \/ OfficeCreate(NoDate)
    \/ EmployeeCreate
    \/ LogCallFromEmployee
    \/ LogCallFromOffice
    \/ LogCallFromOwner

SpecLog == InitCap(MaxLog) /\ [][NextLog]_vars

\* The migration script run, any number of times, on stores built by the
\* views and the model methods: offices that lost or changed their owners,
\* employees, and reports logged for an owner.
NextMigrate ==
    \/ OwnerCreateAlone
    \/ OfficeCreate(NoDate)
    \/ OfficeManageOwners
    \/ EmployeeCreate
    \/ LogCallFromOwner
    \/ AddOwner
    \/ RemoveOwner
    \/ MigrateAllData

SpecMigrate == InitCap(MaxMigrate) /\ [][NextMigrate]_vars

\* Calls logged from each of the three contexts, with room for an owner, an
\* office, an employee and a report.
NextCallFrame ==
    \/ OwnerCreate(NoDate)
    \/ OfficeCreate(NoDate)
    \/ EmployeeCreate
    \/ LogCallFromEmployee
    \/ LogCallFromOffice
    \/ LogCallFromOwner

SpecCallFrame == InitCap(MaxCallFrame) /\ [][NextCallFrame]_vars

\* Reports and what can happen to the store after they are saved: the clock
\* advances, offices are edited and gain owners, reports are re-saved,
\* migrated and given additional owners.
NextHistory ==
    \/ Tick
    \/ OwnerCreate(NoDate)
    \/ OfficeCreate(NoDate)
    \/ LogCallFromOffice
    \/ LogCallFromOwner
    \/ OfficeEdit(NoDate)
    \/ AddOwner
    \/ AddAdditionalOwner
    \/ MigrateOwnerRelationships
    \/ ReportResave

SpecHistory == InitCap(MaxHistory) /\ [][NextHistory]_vars

\* The activity dashboard over reports logged from owner context, on
\* different instants of different days.
NextActivity ==
    \/ Tick
    \/ OwnerCreate(NoDate)
    \/ LogCallFromOwner
    \/ ActivityDashboard

SpecActivity == InitCap(MaxActivity) /\ [][NextActivity]_vars

\* The activity dashboard over reports logged from owner and office
\* context, the offices being multi-owner offices without legacy owner.
NextMatrix ==
    \/ OwnerCreate(NoDate)
    \/ CreateSampleOffice
    \/ LogCallFromOwner
    \/ LogCallFromOffice
    \/ ActivityDashboard

SpecMatrix == InitCap(MaxMatrix) /\ [][NextMatrix]_vars

\* The home page over reports logged from owner and employee context, while
\* weeks pass.
NextHome ==
    \/ WeekPasses
    \/ OwnerCreate(NoDate)
    \/ OfficeCreate(NoDate)
    \/ EmployeeCreate
    \/ LogCallFromOwner
    \/ LogCallFromEmployee
    \/ Home

SpecHome == InitCap(MaxHome) /\ [][NextHome]_vars

\* The home page around the turn of the year: the run starts on a day of
\* the last week of a year or on 1 January, and weeks pass.
NextYearEnd ==
    \/ WeekPasses
    \/ OwnerCreate(NoDate)
    \/ LogCallFromOwner
    \/ Home

InitYearEnd == \E day \in (1 - DaysPerWeek)..1 : InitAt(MaxYearEnd, day)

SpecYearEnd == InitYearEnd /\ [][NextYearEnd]_vars

\* The home page over reports logged on offices, among them multi-owner
\* offices without legacy owner.
NextHomeScope ==
    \/ OwnerCreate(NoDate)
    \/ OfficeCreate(NoDate)
    \/ CreateSampleOffice
    \/ LogCallFromOffice
    \/ Home

SpecHomeScope == InitCap(MaxHomeScope) /\ [][NextHomeScope]_vars

\* The life of an owner: the views that create, edit and delete owners, and
\* the views that write to an owner or to the offices it is linked to.
NextOwner ==
    \/ OwnerCreate(NoDate)
    \/ OwnerCreateFromOffice(NoDate)
    \/ OwnerEdit(NoDate)
    \/ OwnerDelete
    \/ OfficeCreate(NoDate)
    \/ OfficeManageOwners
    \/ LogCallFromOwner

SpecOwner == InitCap(MaxOwner) /\ [][NextOwner]_vars

\* Employees and the deletions that can reach them: the views that create
\* owners, offices and employees, and the three delete views.
NextStaff ==
    \/ OwnerCreate(NoDate)
    \/ OfficeCreate(NoDate)
    \/ EmployeeCreate
    \/ EmployeeEdit
    \/ OwnerDelete
    \/ OfficeDelete
    \/ EmployeeDelete

SpecStaff == InitCap(MaxStaff) /\ [][NextStaff]_vars

\* owner_delete over a store with offices of one and of several owners,
\* employees, and reports logged on them.
NextCascade ==
    \/ OwnerCreate(NoDate)
    \/ OfficeCreate(NoDate)
    \/ EmployeeCreate
    \/ LogCallFromEmployee
    \/ LogCallFromOwner
    \/ AddOwner
    \/ AddAdditionalOwner
    \/ OwnerDelete

SpecCascade == InitCap(MaxCascade) /\ [][NextCascade]_vars

\* Two callers running add_owner and remove_owner at the same time on the
\* offices that office_create made.
NextConcurrent ==
    \/ OwnerCreateAlone
    \/ OfficeCreate(NoDate)
    \/ ConcurrentBegin
    \/ ConcurrentAddOwner
    \/ ConcurrentRemoveOwner
    \/ ConcurrentSave

SpecConcurrent == InitCap(MaxConcurrent) /\ [][NextConcurrent]_vars

\* ------------------------------------------------------------------ scope
\* The data scope of a user, by the ownership chain User -> Owner -> Office
\* -> Employee -> Report: the user's owners; the offices that have one of
\* them among their owners, as primary owner or as legacy owner; the
\* employees of those offices; the reports whose resolved primary owner,
\* office or employee is in scope.
ScopeOwners(u) == {o \in DOMAIN owners : owners[o].user = u}
ScopeOffices(u) ==
    {f \in DOMAIN offices :
        \E o \in ScopeOwners(u) : \/ o \in offices[f].owners
                                  \/ o = offices[f].primary_owner
                                  \/ o = offices[f].owner}
ScopeEmployees(u) ==
    {e \in DOMAIN employees : employees[e].office \in ScopeOffices(u)}
ScopeReports(u) ==
    {r \in DOMAIN reports : \/ ReportGetPrimaryOwner(r) \in ScopeOwners(u)
                            \/ reports[r].primary_owner \in ScopeOwners(u)
                            \/ reports[r].owner \in ScopeOwners(u)
                            \/ reports[r].office \in ScopeOffices(u)
                            \/ reports[r].employee \in ScopeEmployees(u)}

\* ----------------------------------------------------------------- claims
\* C1: after every operation that changes an office's ownership, an office
\* with at least one owner has a primary owner that is one of its owners.
C1_PrimaryOwnerAmongOwners ==
    \A f \in DOMAIN offices :
        offices[f].owners # {} =>
            offices[f].primary_owner \in offices[f].owners

\* C2: a dashboard request for an owner, office or report outside the
\* requester's scope is not rendered.
C2_DashboardsKeepToScope ==
    [][\A u \in Users, m \in Methods :
        /\ \A o \in DOMAIN owners :
              (owner_dashboard(u, o, m) /\ o \notin ScopeOwners(u))
                  => response'.result # "render"
        /\ \A f \in DOMAIN offices :
              (office_dashboard(u, f, m) /\ f \notin ScopeOffices(u))
                  => response'.result # "render"
        /\ \A r \in DOMAIN reports :
              (report_dashboard(u, r, m) /\ r \notin ScopeReports(u))
                  => response'.result # "render"]_vars

\* C3: office_delete and employee_delete on a target outside the requester's
\* scope delete nothing and redirect to home.
C3_DeletesKeepToScope ==
    [][\A u \in Users, m \in Methods :
        /\ \A f \in DOMAIN offices :
              (office_delete(u, f, m) /\ f \notin ScopeOffices(u))
                  => (UNCHANGED store /\ response'.result = "redirect:home")
        /\ \A e \in DOMAIN employees :
              (employee_delete(u, e, m) /\ e \notin ScopeEmployees(u))
                  => (UNCHANGED store /\ response'.result = "redirect:home")
      ]_vars

C5_CreatesKeepToScope ==
    [][\A u \in Users, m \in Methods :
        /\ \A fm \in ReportForms :
              /\ \A e \in DOMAIN employees \ ScopeEmployees(u) :
                    log_call_from_employee(u, e, m, fm[1], fm[2], fm[3],
                                           fm[4])
                        => UNCHANGED <<owners, offices, employees, reports>>
              /\ \A f \in DOMAIN offices \ ScopeOffices(u) :
                    log_call_from_office(u, f, m, fm[1], fm[2], fm[3], fm[4])
                        => UNCHANGED <<owners, offices, employees, reports>>
              /\ \A o \in DOMAIN owners \ ScopeOwners(u) :
                    log_call_from_owner(u, o, m, fm[1], fm[2], fm[3], fm[4])
                        => UNCHANGED <<owners, offices, employees, reports>>
        /\ \A o \in DOMAIN owners \ ScopeOwners(u),
              fm \in OfficeForms(DateInputs) :
              office_create(u, o, m, fm[1], fm[2])
                  => UNCHANGED <<owners, offices, employees, reports>>
        /\ \A f \in DOMAIN offices \ ScopeOffices(u), n \in EmployeeForms :
              employee_create(u, f, m, n)
                  => UNCHANGED <<owners, offices, employees, reports>>
      ]_vars

\* C6: the resolved primary owner of a report is never one of its additional
\* owners.
C6_PrimaryNotAdditional ==
    \A r \in DOMAIN reports :
        ReportGetPrimaryOwner(r) \notin reports[r].additional_owners

\* C7: a log_call_from_owner POST that selects an office of a different owner
\* saves the report, without the office link.
C7_ForeignOfficeDropped ==
    [][\A u \in Users, o \in DOMAIN owners, f \in DOMAIN offices,
          ct \in calltype_choices :
          (/\ log_call_from_owner(u, o, "POST", "text", 5, ct, f)
           /\ offices[f].owner # o
           /\ offices[f].primary_owner # o
           /\ o \notin offices[f].owners
           /\ Inserted < cap)
              => /\ response'.result = "redirect:owner_dashboard"
                 /\ seq'.report = seq.report + 1
                 /\ seq'.report \in DOMAIN reports'
                 /\ reports'[seq'.report].office = None
      ]_vars

\* The report a successful log_call_* request has just saved.
LoggedReport == seq.report
LogCallSucceeded ==
    \/ /\ response.view \in {"log_call_from_employee", "log_call_from_office"}
       /\ response.result = "redirect:office_dashboard"
    \/ /\ response.view = "log_call_from_owner"
       /\ response.result = "redirect:owner_dashboard"

\* C8: after a successful log_call_* request the report's office, if any, and
\* the report's resolved primary owner have last_contacted = today.
C8_LastContactedToday ==
    LogCallSucceeded =>
        LET r == reports[LoggedReport] IN
        /\ r.office # None => offices[r.office].last_contacted = today
        /\ ReportGetPrimaryOwner(LoggedReport) # None =>
              owners[ReportGetPrimaryOwner(LoggedReport)].last_contacted
                  = today

\* C9: a report logged from an employee or an office has as its primary
\* owner the current primary owner of the employee's office / the office.
C9_ReportPrimaryIsOfficePrimary ==
    (/\ response.view \in {"log_call_from_employee", "log_call_from_office"}
     /\ response.result = "redirect:office_dashboard")
        => LET r == reports[LoggedReport] IN
           offices[r.office].primary_owner # None =>
               ReportGetPrimaryOwner(LoggedReport)
                   = offices[r.office].primary_owner

\* C10 (as stated): remove_owner with an owner that is not among the office's
\* owners signals NotAnOwner to the caller.
C10_SignalsNotAnOwner ==
    [][\A f \in DOMAIN offices, o \in DOMAIN owners :
          (remove_owner(f, o) /\ o \notin offices[f].owners)
              => response'.result = "NotAnOwner"]_vars

\* C10: remove_owner with an owner that is not among the office's owners
\* raises nothing: the call returns None to the caller.
C10_ReturnsNone ==
    [][\A f \in DOMAIN offices, o \in DOMAIN owners :
          (remove_owner(f, o) /\ o \notin offices[f].owners)
              => response'.result = "None"]_vars

\* remove_owner has just been called with the office's primary owner, which
\* is not among the office's owners; it is still the primary owner (a call
\* that passes is_owner never leaves its argument as primary owner).
C10_Witness ==
    /\ response.view = "Office.remove_owner"
    /\ response.result = "None"
    /\ response.data[1] \in DOMAIN offices
    /\ response.data[2] \notin offices[response.data[1]].owners
    /\ offices[response.data[1]].primary_owner = response.data[2]

\* C11: Office.remove_owner(owner) on an office that has owner among its
\* owners removes it; primary_owner is unchanged if owner was not the primary
\* owner, one of the remaining owners if it was and owners remain, and None
\* with owners = {} if owner was the sole owner.
C11_RemoveOwnerEffect ==
    [][response'.view = "Office.remove_owner" =>
        LET f == response'.data[1]
            o == response'.data[2]
        IN  (remove_owner(f, o) /\ o \in offices[f].owners) =>
              /\ o \notin offices'[f].owners
              /\ offices[f].primary_owner # o =>
                    offices'[f].primary_owner = offices[f].primary_owner
              /\ (offices[f].primary_owner = o /\ offices[f].owners # {o}) =>
                    offices'[f].primary_owner \in offices[f].owners \ {o}
              /\ offices[f].owners = {o} =>
                    /\ offices'[f].primary_owner = None
                    /\ offices'[f].owners = {}]_vars

\* C12: after Office.add_owner(owner, set_as_primary) the owner is among the
\* office's owners, with all previous owners; primary_owner is the owner if
\* set_as_primary was true or the office had no primary owner, and unchanged
\* otherwise.
C12_AddOwnerEffect ==
    [][response'.view = "Office.add_owner" =>
        LET f == response'.data[1]
            o == response'.data[2]
        IN  \A sp \in BOOLEAN :
              add_owner(f, o, sp) =>
                /\ o \in offices'[f].owners
                /\ offices[f].owners \subseteq offices'[f].owners
                /\ offices'[f].primary_owner =
                      IF sp \/ offices[f].primary_owner = None
                      THEN o ELSE offices[f].primary_owner]_vars

\* add_owner has just added an owner to an office that keeps another owner
\* as its primary owner.
C12_Witness ==
    /\ response.view = "Office.add_owner"
    /\ response.data[2] \in offices[response.data[1]].owners
    /\ offices[response.data[1]].primary_owner
           \in offices[response.data[1]].owners \ {response.data[2]}

\* C13: an office created by office_create for owner P, read back right
\* after the request, has primary_owner = P and P among its owners.
C13_OfficeCreateRoundTrip ==
    [][(/\ response'.view = "office_create"
        /\ response'.result = "redirect:owner_dashboard") =>
        \A u \in Users, P \in DOMAIN owners, fm \in OfficeForms(DateInputs) :
            office_create(u, P, "POST", fm[1], fm[2]) =>
                /\ seq'.office \in DOMAIN offices' \ DOMAIN offices
                /\ offices'[seq'.office].primary_owner = P
                /\ P \in offices'[seq'.office].owners]_vars

\* office_create has just saved a second office, for the second owner.
C13_Witness ==
    /\ response.view = "office_create"
    /\ response.result = "redirect:owner_dashboard"
    /\ seq.office \in DOMAIN offices
    /\ offices[seq.office].primary_owner = 2
    /\ 2 \in offices[seq.office].owners

\* Submitted report forms with content missing, vibe outside 1..10 or a
\* calltype that is not one of the five codes.
InvalidReportForms ==
    {fm \in ReportForms : \/ fm[1] = ""
                          \/ fm[2] < 1 \/ fm[2] > 10
                          \/ fm[3] \notin {"phone", "email", "fov", "teams",
                                           "other"}}
LogCallViews ==
    {"log_call_from_employee", "log_call_from_office", "log_call_from_owner"}

\* C14: a log_call_* POST with an invalid report form returns to the form
\* with errors and writes nothing: no report, no last_contacted change.
C14_InvalidFormWritesNothing ==
    [][\A u \in Users, fm \in InvalidReportForms :
          /\ response'.view = "log_call_from_employee" =>
                \A e \in DOMAIN employees :
                    log_call_from_employee(u, e, "POST", fm[1], fm[2], fm[3],
                                           fm[4])
                        => (UNCHANGED store
                            /\ response'.result = "form_errors")
          /\ response'.view = "log_call_from_office" =>
                \A f \in DOMAIN offices :
                    log_call_from_office(u, f, "POST", fm[1], fm[2], fm[3],
                                         fm[4])
                        => (UNCHANGED store
                            /\ response'.result = "form_errors")
          /\ response'.view = "log_call_from_owner" =>
                \A o \in DOMAIN owners :
                    log_call_from_owner(u, o, "POST", fm[1], fm[2], fm[3],
                                        fm[4])
                        => (UNCHANGED store
                            /\ response'.result = "form_errors")
      ]_vars

\* A log_call_from_employee POST with a vibe outside 1..10 has just been
\* answered with the form and its errors.
C14_Witness ==
    /\ response.view = "log_call_from_employee"
    /\ response.result = "form_errors"
    /\ "vibe" \in response.data

Dashboard == response.data
DashboardRendered == response.view = "activity_dashboard"

\* The reports of the dashboard's report set that an owner has: those whose
\* primary owner (Report.get_primary_owner) it is.
OwnerReports(o) ==
    {r \in Dashboard.reports : ReportGetPrimaryOwner(r) = o}

\* C16: an owner of the requester with N reports in the report set has a
\* matrix row that sums to N (totals_by_owner = N), and grand_total equals
\* the sum of the row totals and the sum of the column totals.
C16_MatrixTotals ==
    DashboardRendered =>
        /\ \A o \in UserOwners(Dashboard.user) :
              /\ Sum(Dashboard.matrix[o], calltype_choices)
                    = Cardinality(OwnerReports(o))
              /\ Dashboard.totals_by_owner[o] = Cardinality(OwnerReports(o))
        /\ Dashboard.grand_total
              = Sum(Dashboard.totals_by_owner, UserOwners(Dashboard.user))
        /\ Dashboard.grand_total
              = Sum(Dashboard.totals_by_calltype, calltype_choices)

\* The requester's reports created on a day within the inclusive range of the
\* dashboard's date parameters (an absent bound does not restrict).
ReportsInRange ==
    {r \in DOMAIN reports :
        /\ reports[r].author = Dashboard.user
        /\ Dashboard.start_date # None =>
              DateOf(reports[r].created_at) >= Dashboard.start_date
        /\ Dashboard.end_date # None =>
              DateOf(reports[r].created_at) <= Dashboard.end_date}

\* The dashboard was asked for with at least one date, and well-formed ones.
FilterApplied ==
    /\ DashboardRendered
    /\ Dashboard.start_date # None \/ Dashboard.end_date # None
    /\ Dashboard.start_date # BadDate
    /\ Dashboard.end_date # BadDate

\* C17: with a date-range filter applied, grand_total is the number of
\* reports the filter kept, whatever owners they are assigned to.
C17_GrandTotalCountsRange ==
    FilterApplied => Dashboard.grand_total = Cardinality(Dashboard.reports)

\* C18: the rows of the matrix are exactly the requester's owners, each a
\* row over the five call types (zero-filled without reports).
C18_RowsAreRequestersOwners ==
    DashboardRendered =>
        /\ DOMAIN Dashboard.matrix = UserOwners(Dashboard.user)
        /\ \A o \in UserOwners(Dashboard.user) :
              /\ DOMAIN Dashboard.matrix[o] = calltype_choices
              /\ OwnerReports(o) = {} =>
                    \A ct \in calltype_choices : Dashboard.matrix[o][ct] = 0

\* C19: the date-range filter is inclusive at both ends: the report set keeps
\* the reports created on the start_date day, on the end_date day (at any
\* time of it) and between, and drops the others.
C19_InclusiveBounds ==
    FilterApplied => Dashboard.reports = ReportsInRange

HomeRendered == response.view = "home"

\* C20: in every window home reports (today, this week, last week, month,
\* rolling week, month, quarter and year) the field-visit count is the number
\* of the window's reports whose calltype is fov, and so is never greater
\* than the window's report count.
C20_FovCountsPerWindow ==
    HomeRendered =>
        LET c == response.data
            W == HomeWindows(c.user, c.current_date)
            Fits(fovs, count, rs) == fovs = FovCount(rs) /\ fovs <= count
        IN /\ Fits(c.today_fovs, c.today_reports_count, W.today)
           /\ Fits(c.this_week_number_fov_counts,
                   c.this_week_number_reports_count, W.this_week_number)
           /\ Fits(c.last_week_number_fov_counts,
                   c.last_week_number_reports_count, W.last_week_number)
           /\ Fits(c.last_month_number_fov_counts,
                   c.last_month_number_reports_count, W.last_month_number)
           /\ Fits(c.weekly_fovs, c.weekly_reports_count, W.weekly)
           /\ Fits(c.monthly_fovs, c.monthly_reports_count, W.monthly)
           /\ Fits(c.quarterly_fovs, c.quarterly_reports_count, W.quarterly)
           /\ Fits(c.yearly_fovs, c.yearly_reports_count, W.yearly)

\* The reports of home's scope created in the ISO week (Monday to Sunday)
\* that contains the day.
HomeReportsOfWeekOf(u, day) ==
    {r \in HomeReports(u) :
        (DateOf(reports[r].created_at) - 1) \div DaysPerWeek
            = (day - 1) \div DaysPerWeek}

\* C21: on every current date, the first and last ISO week of a year
\* included, home's 'this week' report set is the in-scope reports created in
\* the ISO week of the current date, and its 'last week' report set those
\* created in the ISO week of the date seven days earlier.
C21_WeekWindows ==
    HomeRendered =>
        LET c == response.data
        IN /\ c.this_week_number_reports
                 = HomeReportsOfWeekOf(c.user, c.current_date)
           /\ c.last_week_number_reports
                 = HomeReportsOfWeekOf(c.user, c.current_date - DaysPerWeek)

\* The reports whose primary owner (primary_owner, or else the legacy owner)
\* is an owner of the user, or whose employee's office is in the user's
\* office scope.
HomeScopeReports(u) ==
    {r \in DOMAIN reports :
        \/ ReportGetPrimaryOwner(r) \in ScopeOwners(u)
        \/ /\ reports[r].employee # None
           /\ employees[reports[r].employee].office \in ScopeOffices(u)}

\* C22: the reports home lists are the newest of exactly the reports in the
\* requester's scope, and the report set it aggregates over (the reports of
\* the windows) holds no report outside that scope and misses none of it.
C22_HomeReportScope ==
    HomeRendered =>
        LET c == response.data
        IN /\ c.reports \in NewestFirst(HomeScopeReports(c.user))
           /\ c.yearly_reports_count = Cardinality(HomeScopeReports(c.user))

\* C23: an owner's user is the requesting user when owner_create or
\* owner_create_from_office creates the owner, and no later operation
\* changes it (owner_edit and office_manage_owners included).
C23_OwnerUserFixed ==
    [][/\ \A o \in DOMAIN owners \cap DOMAIN owners' :
             owners'[o].user = owners[o].user
       /\ \A o \in DOMAIN owners' \ DOMAIN owners :
             /\ response'.view \in {"owner_create", "owner_create_from_office"}
             /\ response'.data = <<owners'[o].user, o>>]_vars

\* Two users have each created an owner, and the second user has just
\* edited theirs.
C23_Witness ==
    /\ response.view = "owner_edit"
    /\ response.result = "redirect:owner_dashboard"
    /\ \E o \in DOMAIN owners, p \in DOMAIN owners :
          /\ owners[o].user = "u2"
          /\ owners[p].user = "u1"
          /\ response.data = <<"u2", o>>

\* C24: every employee belongs to one office, and that office exists:
\* employee_create links the new employee to the target office, and deleting
\* an office (or an owner, whose offices go with it) deletes the office's
\* employees.
C24_EmployeeHasOffice ==
    \A e \in DOMAIN employees : employees[e].office \in DOMAIN offices

\* An office in which an employee had been created has just been deleted.
C24_Witness ==
    /\ response.view = "office_delete"
    /\ response.result = "redirect:home"
    /\ seq.employee > 0
    /\ DOMAIN offices = {}

NoCallInFlight == \A c \in Callers : calls[c] = Idle

\* C25: whenever two concurrent add_owner/remove_owner calls on an office
\* have both completed, in whatever order their steps interleaved, an office
\* with owners has its primary owner among them and an office whose owners
\* were all removed has no primary owner.
C25_ConcurrentOwnership ==
    NoCallInFlight =>
        \A f \in DOMAIN offices :
            /\ offices[f].owners # {} =>
                  offices[f].primary_owner \in offices[f].owners
            /\ offices[f].owners = {} => offices[f].primary_owner = None

\* C26: Office.remove_owner(owner) with an owner that is not among the
\* office's owners leaves the owners and the primary owner of the office as
\* they were, also when the owners are empty and the legacy owner and the
\* primary owner are still set.
C26_RemoveNonMemberNoEffect ==
    [][response'.view = "Office.remove_owner" =>
        LET f == response'.data[1]
            o == response'.data[2]
        IN  o \notin offices[f].owners =>
              /\ offices'[f].owners = offices[f].owners
              /\ offices'[f].primary_owner = offices[f].primary_owner]_vars

\* The rows owner_delete of o must delete: the offices whose primary or
\* legacy owner is o, the employees of those offices and the employees whose
\* owner is o, and the reports of those offices and employees and the
\* reports whose primary_owner or owner is o.
DoomedOffices(o) ==
    {f \in DOMAIN offices : offices[f].primary_owner = o \/ offices[f].owner = o}
DoomedEmployees(o) ==
    {e \in DOMAIN employees : \/ employees[e].office \in DoomedOffices(o)
                              \/ employees[e].owner = o}
DoomedReports(o) ==
    {r \in DOMAIN reports : \/ reports[r].office \in DoomedOffices(o)
                            \/ reports[r].employee \in DoomedEmployees(o)
                            \/ reports[r].primary_owner = o
                            \/ reports[r].owner = o}

\* C27: owner_delete of o deletes o, the offices whose primary or legacy
\* owner is o with their employees and reports, and the employees and
\* reports whose owner fields name o; an office that has o only among its
\* owners is kept, without o; nothing else is deleted or changed, and no
\* surviving row refers to a deleted one.
C27_OwnerDeleteCascade ==
    [][(response'.view = "owner_delete" /\ response'.result = "redirect:home")
        => \E o \in DOMAIN owners :
            /\ DOMAIN owners' = DOMAIN owners \ {o}
            /\ DOMAIN offices' = DOMAIN offices \ DoomedOffices(o)
            /\ DOMAIN employees' = DOMAIN employees \ DoomedEmployees(o)
            /\ DOMAIN reports' = DOMAIN reports \ DoomedReports(o)
            /\ \A p \in DOMAIN owners' : owners'[p] = owners[p]
            /\ \A f \in DOMAIN offices' :
                  /\ offices'[f] = [offices[f] EXCEPT !.owners = @ \ {o}]
                  /\ offices'[f].owners \subseteq DOMAIN owners'
                  /\ offices'[f].primary_owner \in DOMAIN owners' \cup {None}
                  /\ offices'[f].owner \in DOMAIN owners' \cup {None}
            /\ \A e \in DOMAIN employees' :
                  /\ employees'[e] = employees[e]
                  /\ employees'[e].office \in DOMAIN offices'
                  /\ employees'[e].owner \in DOMAIN owners' \cup {None}
            /\ \A r \in DOMAIN reports' :
                  /\ reports'[r] =
                        [reports[r] EXCEPT !.additional_owners = @ \ {o}]
                  /\ reports'[r].office \in DOMAIN offices' \cup {None}
                  /\ reports'[r].employee \in DOMAIN employees' \cup {None}
                  /\ reports'[r].primary_owner \in DOMAIN owners' \cup {None}
                  /\ reports'[r].owner \in DOMAIN owners' \cup {None}
                  /\ reports'[r].additional_owners \subseteq DOMAIN owners'
       ]_vars

\* An owner has just been deleted while an office of another owner is
\* still there.
C27_Witness ==
    /\ response.view = "owner_delete"
    /\ response.result = "redirect:home"
    /\ seq.owner > Cardinality(DOMAIN owners)
    /\ \E f \in DOMAIN offices : offices[f].primary_owner \in DOMAIN owners

\* C28: a GET request to owner_delete, office_delete or employee_delete
\* leaves the store unchanged; only a POST request deletes.
C28_GetDeletesNothing ==
    [][\A u \in Users :
          /\ \A o \in OwnerIds : owner_delete(u, o, "GET") => UNCHANGED store
          /\ \A f \in OfficeIds : office_delete(u, f, "GET") => UNCHANGED store
          /\ \A e \in EmployeeIds :
                employee_delete(u, e, "GET") => UNCHANGED store]_vars

\* A successful log_call_* request is the step that is about to be answered
\* with the view's redirect.
LogCallSucceeds ==
    \/ /\ response'.view \in {"log_call_from_employee", "log_call_from_office"}
       /\ response'.result = "redirect:office_dashboard"
    \/ /\ response'.view = "log_call_from_owner"
       /\ response'.result = "redirect:owner_dashboard"

\* C29: a successful log_call_* request adds exactly one report; every
\* existing report and every employee is unchanged; an owner or office changes
\* at most in last_contacted, and only the new report's owner and office do.
C29_LogCallFrame ==
    [][LogCallSucceeds =>
          LET new == seq.report + 1 IN
          /\ new \notin DOMAIN reports
          /\ DOMAIN reports' = DOMAIN reports \cup {new}
          /\ \A r \in DOMAIN reports : reports'[r] = reports[r]
          /\ employees' = employees
          /\ DOMAIN offices' = DOMAIN offices
          /\ \A f \in DOMAIN offices :
                 /\ offices'[f] = [offices[f] EXCEPT !.last_contacted =
                                       offices'[f].last_contacted]
                 /\ f # reports'[new].office => offices'[f] = offices[f]
          /\ DOMAIN owners' = DOMAIN owners
          /\ \A o \in DOMAIN owners :
                 /\ owners'[o] = [owners[o] EXCEPT !.last_contacted =
                                      owners'[o].last_contacted]
                 /\ o # reports'[new].owner => owners'[o] = owners[o]
      ]_vars

\* A call logged from an employee has been saved and its office's
\* last_contacted is today.
C29_Witness ==
    /\ response.view = "log_call_from_employee"
    /\ response.result = "redirect:office_dashboard"
    /\ reports[seq.report].office # None
    /\ offices[reports[seq.report].office].last_contacted = today

\* C30: right after a migrate_all_data run, a second run would change no
\* office, employee or report, whatever order the employees come in, and
\* migrate_single_owner_to_multi would return False for every office.
C30_MigrateIdempotent ==
    response.view = "migrate_all_data" =>
        /\ \A f \in DOMAIN offices : ~OfficeMigrates(offices[f])
        /\ \A order \in EmployeeOrders :
               LET again == MigratedStore(order) IN
               /\ again.offices = offices
               /\ again.employees = employees
               /\ again.reports = reports

\* A run has just migrated an office that had lost its primary owner and a
\* report logged for an owner.
C30_Witness ==
    /\ response.view = "migrate_all_data"
    /\ response.data.offices_migrated > 0
    /\ response.data.reports_migrated > 0

====
